---- MODULE Spec2Model ----
(***************************************************************************)
(* State-machine model of the AGNI session export scripts:                 *)
(*   get-agni-clients-by-segment.py  (script "clients_by_segment")         *)
(*   test-client.py                  (script "test_client")                *)
(*   get-agni-sessions.py            (script "sessions")                   *)
(* Time is counted in integer ticks.  Python dicts holding session records *)
(* are functions from field name to string; a dict whose iteration order   *)
(* matters (unique_devices) is a sequence of [k, v] entries in insertion   *)
(* order.                                                                  *)
(***************************************************************************)
EXTENDS Integers, Sequences, FiniteSets, TLC

\* ------------------------------------------------------------------ bounds
MaxLookback == 5
MinWindow == 2
MaxWindow == 3
MaxSkew == 1
MaxThreads == 2

\* the instant of the paginator's own datetime.now() call
Now == MaxLookback + MaxSkew

Scripts == {"clients_by_segment", "test_client", "sessions"}

\* ------------------------------------------------------- python primitives
\* the value of dict.get(key) for a missing key
None == "<None>"

Get(rec, key) == IF key \in DOMAIN rec THEN rec[key] ELSE None

\* truth value of a string-or-None
Truthy(v) == v # None /\ v # ""

\* ------------------------------------------------------- upstream records
RecA == [mac |-> "m1", ip |-> "ip1", nadID |-> "n1", authReqID |-> "a1"]
RecB == [mac |-> "m1", ip |-> "ip2", authReqID |-> "a2"]
RecC == [mac |-> "m2", ip |-> "ip3", nadID |-> "n1", authReqID |-> ""]
RecD == [mac |-> "", ip |-> "ip1"]
RecE == [ip |-> "ip2", nadID |-> "n2"]
RecF == [mac |-> "m2", ip |-> "ip4", client_mac |-> "c0"]

\* the record lists one session.list response can carry
Pages == {<<>>, <<RecA>>, <<RecB, RecC>>, <<RecD, RecE, RecA>>, <<RecF>>}

\* What the upstream can answer to one session.list query:
\*   ok       status 200, body {"data": {"records": records}}
\*   errbody  status 200, body with a non-empty "error" next to the data
\*   neterr   connection error or timeout (requests raises)
\*   http     a non-2xx status
\*   badjson  status 200, body is not JSON
\*   baddata  status 200, JSON whose "data" is not an object
WindowResponses ==
    [kind : {"ok"}, records : Pages]
      \cup [kind : {"errbody"}, records : {<<>>, <<RecA>>}]
      \cup [kind : {"neterr", "http", "badjson", "baddata"}, records : {<<>>}]

\* ------------------------------------------------ enrichment upstream data
NadIds == {"n1", "n2"}

\* the name config.nad.get reports for a switch
NadNameOf(id) == IF id = "n1" THEN "sw1" ELSE "sw2"

\* What the upstream can answer to config.nad.get:
\*   ok      status 200, data.name present
\*   noname  status 200, data without a name
\*   neterr  the request raises (connection error, timeout, malformed body)
\*   http    a status other than 200
NadResponses(id) ==
    [kind : {"ok"}, name : {NadNameOf(id)}]
      \cup [kind : {"noname", "neterr", "http"}, name : {None}]

\* session.details.get: ok carries inputAttrs["Radius:IETF:NAS-Port-Id"]
DetailResponses ==
    [kind : {"ok"}, port : {"Eth1"}]
      \cup [kind : {"neterr", "http"}, port : {None}]

\* The "data" object of identity.client.get: its "attributes" mapping, its
\* "certificate" mapping and its remaining top-level fields in iteration
\* order.  attributes_is_str marks a body whose "attributes" is a non-empty
\* string instead of a mapping.
NoData == [attributes |-> <<>>, certificate |-> <<>>, rest |-> <<>>,
           attributes_is_str |-> FALSE]
DataFull == [attributes |-> [vlan |-> "10"],
             certificate |-> [subject |-> "CN=a", issuer |-> "CA",
                              expiryDate |-> "2030"],
             rest |-> << [k |-> "mac", v |-> "M1"],
                         [k |-> "username", v |-> "bob"] >>,
             attributes_is_str |-> FALSE]
DataAliased == [attributes |-> <<>>,
                certificate |-> [subject |-> "CN=b"],
                rest |-> << [k |-> "client_mac", v |-> "X"],
                            [k |-> "mac", v |-> "M2"] >>,
                attributes_is_str |-> FALSE]
DataBadAttrs == [attributes |-> <<>>, certificate |-> <<>>, rest |-> <<>>,
                 attributes_is_str |-> TRUE]

ClientDatas == {NoData, DataFull, DataAliased, DataBadAttrs}

ClientResponses ==
    [kind : {"ok"}, data : ClientDatas]
      \cup [kind : {"neterr", "http"}, data : {NoData}]

\* a lookup that ended in one of these kinds failed
FailKinds == {"neterr", "http"}

VARIABLES
    script,             \* which of the three scripts runs
    pc,                 \* position of the main program
    lookback,           \* HOURS_BACK, in ticks
    window,             \* WINDOW_MINUTES, in ticks
    skew,               \* ticks between the two datetime.now() calls
    total_start_time,   \* lower bound of the scan
    current_to,
    current_from,
    all_sessions,       \* accumulated raw records
    sess_from,          \* for each accumulated record, the from bound of its window
    queried,            \* the window queries issued so far, in order
    unique_devices,     \* mac -> session, in insertion order
    enable_enrichment,  \* ENABLE_ENRICHMENT
    final_records,
    max_threads,        \* MAX_THREADS, the pool size
    wpc,                \* position of each work item's enrich_device_worker call
    combined_rec,       \* each work item's combined_rec
    name,               \* get_nad_name's local `name`, between fetch and store
    outcome,            \* how each work item's three lookups ended
    nad_cache,
    nad_cache_lock,     \* 0 when free, else the work item holding it
    nad_requests,       \* config.nad.get requests issued, per switch id
    auth,               \* how the key login ended
    seg_kind,           \* how config.segment.list ended
    sorted_keys,        \* the CSV header
    csv_file            \* whether the CSV file was written

vars == <<script, pc, lookback, window, skew, total_start_time, current_to,
          current_from, all_sessions, sess_from, queried, unique_devices,
          enable_enrichment, final_records, max_threads, wpc, combined_rec,
          name, outcome, nad_cache, nad_cache_lock, nad_requests, auth,
          seg_kind, sorted_keys, csv_file>>

workerVars == <<wpc, combined_rec, name, outcome>>
cacheVars == <<nad_cache, nad_cache_lock, nad_requests>>

pageVars == <<total_start_time, current_to, current_from, all_sessions,
              sess_from, queried>>
cfgVars == <<script, lookback, window, skew, enable_enrichment, max_threads>>
enrichVars == <<workerVars, cacheVars>>
runVars == <<auth, seg_kind>>
exportVars == <<sorted_keys, csv_file>>

\* ------------------------------------------------------------------- Init
NoWorkers ==
    /\ wpc = <<>>
    /\ combined_rec = <<>>
    /\ name = <<>>
    /\ outcome = <<>>
    /\ nad_cache = <<>>
    /\ nad_cache_lock = 0
    /\ nad_requests = [n \in NadIds |-> 0]

Init ==
    /\ script \in Scripts
    /\ pc = "login"
    /\ lookback \in 1..MaxLookback
    /\ window \in MinWindow..MaxWindow
    /\ skew \in 0..MaxSkew
    /\ enable_enrichment \in BOOLEAN
    /\ max_threads = MaxThreads
    /\ total_start_time = 0
    /\ current_to = 0
    /\ current_from = 0
    /\ all_sessions = <<>>
    /\ sess_from = <<>>
    /\ queried = <<>>
    /\ unique_devices = <<>>
    /\ final_records = <<>>
    /\ auth = "pending"
    /\ seg_kind = "pending"
    /\ sorted_keys = <<>>
    /\ csv_file = "none"
    /\ NoWorkers

\* ------------------------------------------------ login, segment resolution
\* create_session / login: a failed key login exits with status 1
create_session ==
    /\ pc = "login"
    /\ \E ok \in BOOLEAN :
         /\ auth' = IF ok THEN "ok" ELSE "failed"
         /\ pc' = IF ~ok THEN "exit1"
                  ELSE IF script = "sessions" THEN "start" ELSE "segment"
    /\ UNCHANGED <<cfgVars, seg_kind, exportVars, pageVars, unique_devices,
                   final_records, enrichVars>>

\* config.segment.list: the segment is found, is not among the records, or
\* the request fails
SegmentResponses ==
    { [kind |-> "ok", id |-> "seg1"], [kind |-> "notfound", id |-> None],
      [kind |-> "neterr", id |-> None], [kind |-> "http", id |-> None] }

\* a main program that goes on without a segment id
SegmentExitNever(seg_id) == FALSE

\* `if not seg_id: sys.exit(1)`
SegmentExit(seg_id) == ~Truthy(seg_id)

\* get_segment_id and the main program's test of its result
get_segment_id ==
    /\ pc = "segment"
    /\ \E resp \in SegmentResponses :
         /\ seg_kind' = resp.kind
         /\ pc' = IF SegmentExit(resp.id) THEN "exit1" ELSE "start"
    /\ UNCHANGED <<cfgVars, auth, exportVars, pageVars, unique_devices,
                   final_records, enrichVars>>

\* ------------------------------------------------------- window paginator
\* start_dt = now - HOURS_BACK, then the paginator's own now: the cursor setup
StartPagination ==
    /\ pc = "start"
    /\ total_start_time' = (Now - skew) - lookback
    /\ current_to' = Now
    /\ current_from' = Now - window
    /\ pc' = "paginate"
    /\ UNCHANGED <<cfgVars, runVars, exportVars, all_sessions, sess_from, queried, unique_devices,
                   final_records, enrichVars>>

\* `if recs: all_sessions.extend(recs)`
Extend(resp) ==
    /\ all_sessions' = all_sessions \o resp.records
    /\ sess_from' = sess_from \o [i \in 1..Len(resp.records) |-> current_from]

\* a cursor step that leaves the upper bound where it was
MoveWindowBackKeepTo ==
    /\ current_to' = current_to
    /\ current_from' = current_from - window

\* `current_to = current_from; current_from = current_to - window`
MoveWindowBack ==
    /\ current_to' = current_from
    /\ current_from' = current_from - window

LogQuery(resp) ==
    queried' = Append(queried, [from |-> current_from, to |-> current_to,
                                kind |-> resp.kind])

\* get-agni-clients-by-segment.py: only requests.exceptions.RequestException
\* is caught (connection errors, raise_for_status, requests' JSONDecodeError);
\* body.get("data", {}).get(...) on a non-object raises AttributeError, which
\* leaves the function.  The body's "error" field is not looked at.
SegmentHandling(resp) ==
    CASE resp.kind \in {"ok", "errbody"} -> "append"
      [] resp.kind \in {"neterr", "http", "badjson"} -> "skip"
      [] resp.kind = "baddata" -> "raise"

\* test-client.py: `except Exception: pass`; any status but 200 is ignored
ClientHandling(resp) ==
    CASE resp.kind \in {"ok", "errbody"} -> "append"
      [] resp.kind \in {"neterr", "http", "badjson", "baddata"} -> "skip"

\* get-agni-sessions.py: RequestException and a non-empty "error" both break
SessionsHandling(resp) ==
    CASE resp.kind = "ok" -> "append"
      [] resp.kind \in {"neterr", "http", "badjson", "errbody"} -> "break"
      [] resp.kind = "baddata" -> "raise"

\* one iteration of the while loop, given how the script handles the response
WindowIteration(resp, handling) ==
    /\ LogQuery(resp)
    /\ IF handling = "append" THEN Extend(resp)
                              ELSE UNCHANGED <<all_sessions, sess_from>>
    /\ IF handling \in {"append", "skip"}
         THEN MoveWindowBack /\ pc' = pc
         ELSE /\ UNCHANGED <<current_to, current_from>>
              /\ pc' = IF handling = "break" THEN "export" ELSE "crashed"
    /\ UNCHANGED <<cfgVars, runVars, exportVars, total_start_time, unique_devices, final_records,
                   enrichVars>>

get_sessions_time_sliced_segment ==
    /\ pc = "paginate" /\ script = "clients_by_segment"
    /\ current_from >= total_start_time
    /\ \E resp \in WindowResponses : WindowIteration(resp, SegmentHandling(resp))

get_sessions_time_sliced_client ==
    /\ pc = "paginate" /\ script = "test_client"
    /\ current_from >= total_start_time
    /\ \E resp \in WindowResponses : WindowIteration(resp, ClientHandling(resp))

window_loop_sessions ==
    /\ pc = "paginate" /\ script = "sessions"
    /\ current_from >= total_start_time
    /\ \E resp \in WindowResponses : WindowIteration(resp, SessionsHandling(resp))

\* the while condition turns false: the accumulated records are returned
ReturnSessions ==
    /\ pc = "paginate"
    /\ current_from < total_start_time
    /\ pc' = IF script = "sessions" THEN "export" ELSE "dedup"
    /\ UNCHANGED <<cfgVars, runVars, exportVars, pageVars, unique_devices, final_records, enrichVars>>

\* ------------------------------------------------------------ deduplicator
HasKey(d, k) == \E i \in 1..Len(d) : d[i].k = k

\* d[k] = v on an insertion-ordered dict
DictSet(d, k, v) ==
    IF HasKey(d, k)
      THEN [i \in 1..Len(d) |-> IF d[i].k = k THEN [k |-> k, v |-> v] ELSE d[i]]
      ELSE Append(d, [k |-> k, v |-> v])

\* d[k]
DictGet(d, k) == d[CHOOSE i \in 1..Len(d) : d[i].k = k].v

\* list(d.values())
DictValues(d) == [i \in 1..Len(d) |-> d[i].v]

\* a deduplicator that keeps the first record seen for a key
DedupOneKeepFirst(d, sess) ==
    LET m == Get(sess, "mac")
    IN  IF Truthy(m) /\ ~HasKey(d, m) THEN DictSet(d, m, sess) ELSE d

\* a deduplicator that does not test the key before storing
DedupOneNoKeyTest(d, sess) == DictSet(d, Get(sess, "mac"), sess)

\* the loop body: m = sess.get("mac"); if m: unique_devices[m] = sess
DedupOne(d, sess) ==
    LET m == Get(sess, "mac")
    IN  IF Truthy(m) THEN DictSet(d, m, sess) ELSE d

RECURSIVE DedupFrom(_, _, _)
DedupFrom(sessions, i, d) ==
    IF i > Len(sessions) THEN d
    ELSE DedupFrom(sessions, i + 1, DedupOne(d, sessions[i]))

\* for sess in raw_sessions: ...
Deduplicate(sessions) == DedupFrom(sessions, 1, <<>>)

DedupStep ==
    /\ pc = "dedup"
    /\ unique_devices' = Deduplicate(all_sessions)
    /\ pc' = "enrich"
    /\ UNCHANGED <<cfgVars, runVars, exportVars, pageVars, final_records, enrichVars>>

\* -------------------------------------------------------------- enrichment
\* combined_rec[k] = v
Put(rec, k, v) == (k :> v) @@ rec

\* f"client_attr_{k}"
AttrField(k) == CASE k = "vlan" -> "client_attr_vlan"

\* f"client_{k}"
ClientField(k) ==
    CASE k = "mac" -> "client_mac"
      [] k = "username" -> "client_username"
      [] k = "client_mac" -> "client_client_mac"

\* get_nad_name after the request: what it returns and whether it stores it
NadFetch(resp) ==
    CASE resp.kind = "ok"     -> [store |-> TRUE, name |-> resp.name]
      [] resp.kind = "noname" -> [store |-> TRUE, name |-> "Unknown"]
      [] OTHER                -> [store |-> FALSE, name |-> "Unknown"]

\* a get_session_details that hands back the absent port of a failed request
get_session_details_none(resp) == resp.port

get_session_details(resp) == IF resp.kind = "ok" THEN resp.port ELSE ""

get_client_info(resp) == IF resp.kind = "ok" THEN resp.data ELSE NoData

\* `if client_data:` (a dict is true when it has any key)
DataTruthy(data) ==
    \/ data.attributes_is_str
    \/ DOMAIN data.attributes # {}
    \/ DOMAIN data.certificate # {}
    \/ data.rest # <<>>

\* a merge that indexes client_data["attributes"] without the guard
MergeRaisesKeyError(data) ==
    DOMAIN data.attributes = {} \/ data.attributes_is_str

\* client_attrs.items() on a string raises AttributeError
MergeRaises(data) == DataTruthy(data) /\ data.attributes_is_str

RECURSIVE FlattenAttrs(_, _, _)
FlattenAttrs(rec, attrs, todo) ==
    IF todo = {} THEN rec
    ELSE LET k == CHOOSE x \in todo : TRUE
         IN  FlattenAttrs(Put(rec, AttrField(k), attrs[k]), attrs, todo \ {k})

\* cert_info.get(...) into the script's two certificate columns
FlattenCert(rec, cert, first, firstKey) ==
    IF DOMAIN cert = {} THEN rec
    ELSE Put(Put(rec, first, Get(cert, firstKey)),
             "cert_expiry", Get(cert, "expiryDate"))

\* for k, v in client_data.items(): the prefix-on-collision rule
RECURSIVE MergeRest(_, _, _)
MergeRest(rec, rest, i) ==
    IF i > Len(rest) THEN rec
    ELSE LET k == rest[i].k
             v == rest[i].v
         IN  MergeRest(IF k \notin DOMAIN rec THEN Put(rec, k, v)
                                              ELSE Put(rec, ClientField(k), v),
                       rest, i + 1)

\* the `if client_data:` block of the enrichment
MergeClient(rec, data, first, firstKey) ==
    IF ~DataTruthy(data) THEN rec
    ELSE MergeRest(
           FlattenCert(
             FlattenAttrs(rec, data.attributes, DOMAIN data.attributes),
             data.certificate, first, firstKey),
           data.rest, 1)

\* no lookup made yet; data is what get_client_info / get_client_details
\* returned
NoOutcome == [nad |-> "none", det |-> "none", cli |-> "none", data |-> NoData]

\* a branch test that leaves the flag out
EnrichBranchAlways == unique_devices # <<>>

\* `if ENABLE_ENRICHMENT and unique_devices:`
EnrichBranch == enable_enrichment /\ unique_devices # <<>>

\* the else branch: final_records = list(unique_devices.values())
SkipEnrich ==
    /\ pc = "enrich"
    /\ ~EnrichBranch
    /\ final_records' = DictValues(unique_devices)
    /\ pc' = "export"
    /\ UNCHANGED <<cfgVars, runVars, exportVars, pageVars, unique_devices, enrichVars>>

\* the branch is taken: work_items is built (test-client.py), or the
\* sequential loop is entered (get-agni-clients-by-segment.py)
StartEnrich ==
    /\ pc = "enrich"
    /\ EnrichBranch
    /\ wpc' = [i \in 1..Len(unique_devices) |-> "queued"]
    /\ combined_rec' = [i \in 1..Len(unique_devices) |-> <<>>]
    /\ name' = [i \in 1..Len(unique_devices) |-> None]
    /\ outcome' = [i \in 1..Len(unique_devices) |-> NoOutcome]
    /\ pc' = IF script = "test_client" THEN "pool" ELSE "loop"
    /\ UNCHANGED <<cfgVars, runVars, exportVars, pageVars, unique_devices, final_records, cacheVars>>

workerFrame == <<cfgVars, runVars, exportVars, pageVars, final_records, pc>>

\* an assignment `combined_rec = sess_data`: both names are one dict
CopyIsSameObject == FALSE

\* `combined_rec = sess_data.copy()`: a new dict, so that a write to
\* combined_rec does not show in the entry of unique_devices
CopyIsNewObject == TRUE

\* unique_devices after a step of work item i
SessDataAfter(i) ==
    IF CopyIsNewObject THEN unique_devices
    ELSE [unique_devices EXCEPT ![i].v = combined_rec'[i]]

\* get-agni-clients-by-segment.py: one iteration of the enrichment loop
enrich_loop_segment ==
    /\ pc = "loop"
    /\ LET i == Len(final_records) + 1
           sess_data == unique_devices[i].v
       IN  \E resp \in ClientResponses :
             LET client_data == get_client_info(resp)
                 rec == MergeClient(sess_data, client_data,
                                    "cert_issuer", "issuer")
             IN  /\ outcome' = [outcome EXCEPT ![i].cli = resp.kind,
                                                ![i].data = client_data]
                 /\ IF MergeRaises(client_data)
                      THEN /\ wpc' = [wpc EXCEPT ![i] = "crashed"]
                           /\ pc' = "crashed"
                           /\ UNCHANGED <<combined_rec, final_records,
                                          unique_devices>>
                      ELSE /\ wpc' = [wpc EXCEPT ![i] = "done"]
                           /\ combined_rec' = [combined_rec EXCEPT ![i] = rec]
                           /\ final_records' = Append(final_records, rec)
                           /\ pc' = IF i = Len(unique_devices) THEN "export"
                                                               ELSE "loop"
                           /\ unique_devices' = SessDataAfter(i)
    /\ UNCHANGED <<cfgVars, runVars, exportVars, pageVars, name, cacheVars>>

\* ---- test-client.py: the thread pool
Running(i) == wpc[i] \notin {"queued", "done", "crashed"}

\* A pool thread takes the next work item: combined_rec = sess_data.copy(),
\* then `if nad_id:` enters get_nad_name, which goes for the lock
BeginWorker(i) ==
    /\ pc = "pool"
    /\ wpc[i] = "queued"
    /\ \A j \in 1..(i - 1) : wpc[j] # "queued"
    /\ Cardinality({j \in 1..Len(wpc) : Running(j)}) < max_threads
    /\ combined_rec' = [combined_rec EXCEPT ![i] = unique_devices[i].v]
    /\ wpc' = [wpc EXCEPT ![i] =
                 IF Truthy(Get(unique_devices[i].v, "nadID")) THEN "lock_check"
                                                              ELSE "details"]
    /\ UNCHANGED <<workerFrame, name, outcome, cacheVars>>
    /\ unique_devices' = SessDataAfter(i)

\* `with nad_cache_lock:` entered
AcquireLock(i) ==
    /\ pc = "pool"
    /\ wpc[i] \in {"lock_check", "lock_store"}
    /\ nad_cache_lock = 0
    /\ nad_cache_lock' = i
    /\ wpc' = [wpc EXCEPT ![i] = IF wpc[i] = "lock_check" THEN "check" ELSE "store"]
    /\ UNCHANGED <<workerFrame, combined_rec, name, outcome, nad_cache, nad_requests>>
    /\ unique_devices' = SessDataAfter(i)

\* a cache test that never finds the entry
CheckCacheMiss(i) ==
    /\ pc = "pool"
    /\ wpc[i] = "check"
    /\ wpc' = [wpc EXCEPT ![i] = "fetch"]
    /\ nad_cache_lock' = 0
    /\ UNCHANGED <<workerFrame, combined_rec, outcome, name, nad_cache,
                   nad_requests>>
    /\ unique_devices' = SessDataAfter(i)

\* a cache read that hands back the placeholder instead of the entry
CachedNameUnknown(nad_id) == "Unknown"

\* `return nad_cache[nad_id]`
CachedName(nad_id) == nad_cache[nad_id]

\* `if nad_id in nad_cache: return nad_cache[nad_id]`, leaving the with block
CheckCache(i) ==
    /\ pc = "pool"
    /\ wpc[i] = "check"
    /\ LET nad_id == unique_devices[i].v["nadID"]
       IN  IF nad_id \in DOMAIN nad_cache
             THEN /\ combined_rec' = [combined_rec EXCEPT ![i] =
                                        Put(@, "switch_name", CachedName(nad_id))]
                  /\ outcome' = [outcome EXCEPT ![i].nad = "hit"]
                  /\ wpc' = [wpc EXCEPT ![i] = "details"]
             ELSE /\ wpc' = [wpc EXCEPT ![i] = "fetch"]
                  /\ UNCHANGED <<combined_rec, outcome>>
    /\ nad_cache_lock' = 0
    /\ UNCHANGED <<workerFrame, name, nad_cache, nad_requests>>
    /\ unique_devices' = SessDataAfter(i)

\* session.post(config.nad.get) is sent
SendNadRequest(i) ==
    /\ pc = "pool"
    /\ wpc[i] = "fetch"
    /\ LET nad_id == unique_devices[i].v["nadID"]
       IN  nad_requests' = [nad_requests EXCEPT ![nad_id] = @ + 1]
    /\ wpc' = [wpc EXCEPT ![i] = "wait"]
    /\ UNCHANGED <<workerFrame, combined_rec, name, outcome, nad_cache,
                   nad_cache_lock>>
    /\ unique_devices' = SessDataAfter(i)

\* the request returns, raises or times out
ReceiveNadResponse(i) ==
    /\ pc = "pool"
    /\ wpc[i] = "wait"
    /\ \E resp \in NadResponses(unique_devices[i].v["nadID"]) :
         LET r == NadFetch(resp)
         IN  /\ outcome' = [outcome EXCEPT ![i].nad = resp.kind]
             /\ IF r.store
                  THEN /\ name' = [name EXCEPT ![i] = r.name]
                       /\ wpc' = [wpc EXCEPT ![i] = "lock_store"]
                       /\ UNCHANGED combined_rec
                  ELSE /\ combined_rec' = [combined_rec EXCEPT ![i] =
                                             Put(@, "switch_name", r.name)]
                       /\ wpc' = [wpc EXCEPT ![i] = "details"]
                       /\ UNCHANGED name
    /\ UNCHANGED <<workerFrame, cacheVars>>
    /\ unique_devices' = SessDataAfter(i)

\* `nad_cache[nad_id] = name`, leaving the with block, `return name`
StoreCache(i) ==
    /\ pc = "pool"
    /\ wpc[i] = "store"
    /\ nad_cache' = Put(nad_cache, unique_devices[i].v["nadID"], name[i])
    /\ nad_cache_lock' = 0
    /\ combined_rec' = [combined_rec EXCEPT ![i] = Put(@, "switch_name", name[i])]
    /\ wpc' = [wpc EXCEPT ![i] = "details"]
    /\ UNCHANGED <<workerFrame, name, outcome, nad_requests>>
    /\ unique_devices' = SessDataAfter(i)

\* a worker that gives up the port lookup once the switch lookup failed
LookupDetailsAfterNad(i) ==
    /\ pc = "pool"
    /\ wpc[i] = "details"
    /\ IF Truthy(Get(unique_devices[i].v, "authReqID"))
            /\ outcome[i].nad \notin FailKinds
         THEN \E resp \in DetailResponses :
                /\ combined_rec' = [combined_rec EXCEPT ![i] =
                        Put(@, "switch_interface", resp.port)]
                /\ outcome' = [outcome EXCEPT ![i].det = resp.kind]
         ELSE UNCHANGED <<combined_rec, outcome>>
    /\ wpc' = [wpc EXCEPT ![i] = "client"]
    /\ UNCHANGED <<workerFrame, name, cacheVars>>
    /\ unique_devices' = SessDataAfter(i)

\* `if auth_req_id: combined_rec["switch_interface"] = get_session_details(...)`
LookupDetails(i) ==
    /\ pc = "pool"
    /\ wpc[i] = "details"
    /\ IF Truthy(Get(unique_devices[i].v, "authReqID"))
         THEN \E resp \in DetailResponses :
                /\ combined_rec' = [combined_rec EXCEPT ![i] =
                        Put(@, "switch_interface", get_session_details(resp))]
                /\ outcome' = [outcome EXCEPT ![i].det = resp.kind]
         ELSE UNCHANGED <<combined_rec, outcome>>
    /\ wpc' = [wpc EXCEPT ![i] = "client"]
    /\ UNCHANGED <<workerFrame, name, cacheVars>>
    /\ unique_devices' = SessDataAfter(i)

\* get_client_info and the merge of its result; `return combined_rec`
LookupClient(i) ==
    /\ pc = "pool"
    /\ wpc[i] = "client"
    /\ \E resp \in ClientResponses :
         LET client_data == get_client_info(resp)
         IN  /\ outcome' = [outcome EXCEPT ![i].cli = resp.kind,
                                                ![i].data = client_data]
             /\ IF MergeRaises(client_data)
                  THEN /\ wpc' = [wpc EXCEPT ![i] = "crashed"]
                       /\ UNCHANGED combined_rec
                  ELSE /\ wpc' = [wpc EXCEPT ![i] = "done"]
                       /\ combined_rec' = [combined_rec EXCEPT ![i] =
                            MergeClient(@, client_data, "cert_subject", "subject")]
    /\ UNCHANGED <<workerFrame, name, cacheVars>>
    /\ unique_devices' = SessDataAfter(i)

\* list(executor.map(...)) once every work item has ended: a worker's
\* exception is re-raised in the main thread
CollectResults ==
    /\ pc = "pool"
    /\ \A i \in 1..Len(wpc) : wpc[i] \in {"done", "crashed"}
    /\ IF \E i \in 1..Len(wpc) : wpc[i] = "crashed"
         THEN pc' = "crashed" /\ UNCHANGED final_records
         ELSE pc' = "export" /\ final_records' = combined_rec
    /\ UNCHANGED <<cfgVars, runVars, exportVars, pageVars, unique_devices, enrichVars>>

\* ------------------------------------------------------------------ export
Range(seq) == {seq[i] : i \in 1..Len(seq)}

\* set().union(*(d.keys() for d in records))
AllKeys(records) == UNION {DOMAIN records[i] : i \in 1..Len(records)}

\* the keys a record of the model can carry
KeyOrder ==
    << "nadID", "cert_expiry", "ip", "client_attr_vlan", "mac",
       "switch_interface", "authReqID", "username", "client_mac",
       "cert_subject", "switch_name", "client_username", "cert_issuer",
       "client_client_mac" >>

Reverse(seq) == [i \in 1..Len(seq) |-> seq[Len(seq) + 1 - i]]

\* the orders in which iterating a set of strings may yield its elements
\* (the order follows the strings' hashes, which differ from run to run)
SetOrders ==
    { KeyOrder, Reverse(KeyOrder),
      SubSeq(KeyOrder, 6, Len(KeyOrder)) \o SubSeq(KeyOrder, 1, 5) }

\* list(all_keys), when the set iterates in the given order
ListOfSet(keys, order) == SelectSeq(order, LAMBDA k : k \in keys)

\* sorted(...) of the raw records' keys
Alphabetical == << "authReqID", "client_mac", "ip", "mac", "nadID" >>

\* test-client.py
priority ==
    << "mac", "username", "userID", "switch_name", "switch_interface",
       "ip", "deviceType", "segmentName", "location", "cert_expiry" >>

\* get-agni-clients-by-segment.py
priority_cols ==
    << "mac", "username", "userID", "deviceType", "description",
       "ip", "nadName", "segmentName", "location", "lastAuthAt",
       "cert_expiry" >>

\* list.remove(x): the first occurrence goes
Remove(seq, x) ==
    LET i == CHOOSE j \in 1..Len(seq) :
               seq[j] = x /\ \A k \in 1..(j - 1) : seq[k] # x
    IN  SubSeq(seq, 1, i - 1) \o SubSeq(seq, i + 1, Len(seq))

\* a loop `for col in priority`, front to back
ForwardIndex(prio, n) == n

\* `for col in reversed(priority)`: the n-th column visited
ReversedIndex(prio, n) == Len(prio) + 1 - n

\* the loop from its n-th iteration on:
\* if col in sorted_keys: sorted_keys.remove(col); sorted_keys.insert(0, col)
RECURSIVE PriorityPass(_, _, _)
PriorityPass(keys, prio, n) ==
    IF n > Len(prio) THEN keys
    ELSE LET col == prio[ReversedIndex(prio, n)]
         IN  PriorityPass(IF col \in Range(keys)
                            THEN <<col>> \o Remove(keys, col)
                            ELSE keys,
                          prio, n + 1)

\* csv.DictWriter(...).writerows, which may fail with an IOError
CsvOutcomes == {"written", "ioerror"}

\* the export block of test-client.py and get-agni-clients-by-segment.py
Export ==
    /\ pc = "export" /\ script # "sessions"
    /\ IF final_records # <<>>
         THEN /\ \E order \in SetOrders :
                   sorted_keys' =
                     PriorityPass(ListOfSet(AllKeys(final_records), order),
                                  IF script = "test_client" THEN priority
                                                            ELSE priority_cols,
                                  1)
              /\ csv_file' \in CsvOutcomes
         ELSE UNCHANGED exportVars
    /\ pc' = "done"
    /\ UNCHANGED <<cfgVars, runVars, pageVars, unique_devices, final_records,
                   enrichVars>>

\* get-agni-sessions.py: exit 0 without records, else an alphabetical header;
\* an IOError exits with status 1
ExportSessions ==
    /\ pc = "export" /\ script = "sessions"
    /\ IF all_sessions = <<>>
         THEN pc' = "done" /\ UNCHANGED exportVars
         ELSE /\ sorted_keys' = ListOfSet(AllKeys(all_sessions), Alphabetical)
              /\ csv_file' \in CsvOutcomes
              /\ pc' = IF csv_file' = "ioerror" THEN "exit1" ELSE "done"
    /\ UNCHANGED <<cfgVars, runVars, pageVars, unique_devices, final_records,
                   enrichVars>>

\* ------------------------------------------------------------------- Next
NextFetch ==
    \/ create_session
    \/ get_segment_id
    \/ StartPagination
    \/ get_sessions_time_sliced_segment
    \/ get_sessions_time_sliced_client
    \/ window_loop_sessions
    \/ ReturnSessions
    \/ DedupStep
    \/ SkipEnrich
    \/ Export
    \/ ExportSessions

NextEnrich ==
    \/ DedupStep
    \/ SkipEnrich
    \/ StartEnrich
    \/ enrich_loop_segment
    \/ \E i \in 1..Len(wpc) : BeginWorker(i)
    \/ \E i \in 1..Len(wpc) : AcquireLock(i)
    \/ \E i \in 1..Len(wpc) : CheckCache(i)
    \/ \E i \in 1..Len(wpc) : SendNadRequest(i)
    \/ \E i \in 1..Len(wpc) : ReceiveNadResponse(i)
    \/ \E i \in 1..Len(wpc) : StoreCache(i)
    \/ \E i \in 1..Len(wpc) : LookupDetails(i)
    \/ \E i \in 1..Len(wpc) : LookupClient(i)
    \/ CollectResults
    \/ Export

\* every step of the three scripts
NextRun ==
    \/ create_session
    \/ get_segment_id
    \/ StartPagination
    \/ get_sessions_time_sliced_segment
    \/ get_sessions_time_sliced_client
    \/ window_loop_sessions
    \/ ReturnSessions
    \/ DedupStep
    \/ SkipEnrich
    \/ StartEnrich
    \/ enrich_loop_segment
    \/ \E i \in 1..Len(wpc) : BeginWorker(i)
    \/ \E i \in 1..Len(wpc) : AcquireLock(i)
    \/ \E i \in 1..Len(wpc) : CheckCache(i)
    \/ \E i \in 1..Len(wpc) : SendNadRequest(i)
    \/ \E i \in 1..Len(wpc) : ReceiveNadResponse(i)
    \/ \E i \in 1..Len(wpc) : StoreCache(i)
    \/ \E i \in 1..Len(wpc) : LookupDetails(i)
    \/ \E i \in 1..Len(wpc) : LookupClient(i)
    \/ CollectResults
    \/ Export
    \/ ExportSessions

\* a run whose lookback is at most one window long
InitRun == Init /\ lookback <= window

\* whole runs, from the login to the end of the export
SpecRun == InitRun /\ [][NextRun]_vars

\* the scripts from start to the hand-over to enrichment
SpecFetch == Init /\ [][NextFetch]_vars

\* the run once get_sessions_time_sliced has returned two windows' records
InitEnrich ==
    /\ script \in {"clients_by_segment", "test_client"}
    /\ pc = "dedup"
    /\ window = MinWindow
    /\ lookback = 2 * MinWindow
    /\ skew = 0
    /\ enable_enrichment \in BOOLEAN
    /\ max_threads \in 1..MaxThreads
    /\ total_start_time = Now - lookback
    /\ current_to = Now - 2 * window
    /\ current_from = Now - 3 * window
    /\ \E p1 \in Pages, p2 \in Pages :
         /\ all_sessions = p1 \o p2
         /\ sess_from = [i \in 1..Len(p1) |-> Now - window]
                          \o [i \in 1..Len(p2) |-> Now - 2 * window]
    /\ queried = << [from |-> Now - window, to |-> Now, kind |-> "ok"],
                    [from |-> Now - 2 * window, to |-> Now - window, kind |-> "ok"] >>
    /\ unique_devices = <<>>
    /\ final_records = <<>>
    /\ auth = "ok"
    /\ seg_kind = "ok"
    /\ sorted_keys = <<>>
    /\ csv_file = "none"
    /\ NoWorkers

SpecEnrich == InitEnrich /\ [][NextEnrich]_vars

\* ================================================================ claims
\* the paginator has returned normally and the records are deduplicated
Deduped ==
    script # "sessions" /\ pc \in {"enrich", "pool", "loop", "export", "done"}

Mac(sess) == Get(sess, "mac")

Occurrences(k) == {i \in 1..Len(all_sessions) : Mac(all_sessions[i]) = k}

FirstIndex(k) == CHOOSE i \in Occurrences(k) : \A j \in Occurrences(k) : i <= j
LastIndex(k) == CHOOSE i \in Occurrences(k) : \A j \in Occurrences(k) : j <= i

\* the from bound of the oldest window queried so far (Now when there is none)
LowestQueried == IF queried = <<>> THEN Now ELSE queried[Len(queried)].from

\* C1: Window Paginator coverage.  When get_sessions_time_sliced returns,
\* the windows it queried are contiguous from now downwards and their union
\* reaches down to now - L, for every L and W, W not dividing L included.
C1_WindowsCoverRange ==
    pc = "dedup" =>
      /\ queried # <<>> => queried[1].to = Now
      /\ \A i \in 2..Len(queried) : queried[i].to = queried[i - 1].from
      /\ LowestQueried <= Now - lookback

\* C2: Window failure policy.  In each of the three pagination loops a
\* window whose query fails (network error, non-2xx status, malformed body)
\* is skipped: no exception leaves the paginator and the older windows down
\* to the lower bound are still queried.
C2_FailedWindowSkipped ==
    (/\ pc \in {"dedup", "enrich", "export", "crashed"}
     /\ \A i \in 1..Len(queried) : queried[i].kind # "errbody")
      => /\ pc # "crashed"
         /\ current_from < total_start_time

\* C3: Dedup keeps the most recent observation.  For every key the record
\* held in unique_devices is its first occurrence in the accumulated
\* sequence, the one from the most recent window.
C3_MostRecentKept ==
    Deduped =>
      \A j \in 1..Len(unique_devices) :
        unique_devices[j].v = all_sessions[FirstIndex(unique_devices[j].k)]

C5_DedupShape ==
    Deduped =>
      /\ {unique_devices[j].k : j \in 1..Len(unique_devices)}
           = {Mac(all_sessions[i]) : i \in {x \in 1..Len(all_sessions) :
                                              Truthy(Mac(all_sessions[x]))}}
      /\ \A i, j \in 1..Len(unique_devices) :
           unique_devices[i].k = unique_devices[j].k => i = j
      /\ \A j \in 1..Len(unique_devices) :
           /\ Truthy(unique_devices[j].k)
           /\ \E i \in 1..Len(all_sessions) :
                /\ all_sessions[i] = unique_devices[j].v
                /\ Mac(all_sessions[i]) = unique_devices[j].k

\* records with an empty key and with no key were dropped, others were kept
C5_Witness ==
    /\ Deduped
    /\ unique_devices # <<>>
    /\ \E i \in 1..Len(all_sessions) : Mac(all_sessions[i]) = ""
    /\ \E i \in 1..Len(all_sessions) : Mac(all_sessions[i]) = None

\* ---------------------------------------------------------- lookup cache
Items == 1..Len(wpc)

NadOf(i) == Get(unique_devices[i].v, "nadID")

\* the work items whose get_nad_name call for switch n has returned
Returned(n) == {i \in Items : NadOf(i) = n /\ outcome[i].nad \in {"ok", "hit"}
                                /\ wpc[i] \in {"details", "client", "done", "crashed"}}

\* every request sent for switch n so far has been answered, with a name
FetchesSucceeded(n) ==
    \A i \in Items : NadOf(i) = n =>
      /\ wpc[i] # "wait"
      /\ outcome[i].nad \in {"none", "ok", "hit"}

\* C6: Lookup Cache single fetch under concurrency.  Only the first caller
\* for a switch id issues the request; when the fetch succeeds at most one
\* request per switch id is ever sent.
C6_SingleFetch ==
    \A n \in NadIds : FetchesSucceeded(n) => nad_requests[n] <= 1

\* C7: Cache duplicate-fetch bound.  When N >= 2 concurrent get_nad_name
\* calls for one switch id have returned and the fetch succeeded, fewer than
\* N requests were issued for that id and all callers got the same value.
C7_FewerFetchesThanCallers ==
    \A n \in NadIds :
      (/\ FetchesSucceeded(n)
       /\ Cardinality(Returned(n)) >= 2
       /\ Returned(n) = {i \in Items : NadOf(i) = n})
        => /\ nad_requests[n] < Cardinality(Returned(n))
           /\ \A i, j \in Returned(n) :
                combined_rec[i]["switch_name"] = combined_rec[j]["switch_name"]

\* C8: Fetch failures are not cached.  As long as no fetch for a switch id
\* has produced a name (network error, non-success status, response without
\* a usable name), nad_cache holds no entry for that id.
C8_FailuresNotCached ==
    \A n \in NadIds :
      (\A i \in Items : NadOf(i) = n => outcome[i].nad # "ok")
        => n \notin DOMAIN nad_cache

\* ------------------------------------------------------------ enrichment
Base(i) == unique_devices[i].v

SwitchFields(i) ==
    IF script # "test_client" THEN {}
    ELSE (IF Truthy(NadOf(i)) THEN {"switch_name"} ELSE {})
           \cup (IF Truthy(Get(Base(i), "authReqID")) THEN {"switch_interface"}
                                                     ELSE {})

Empty(rec, f) == f \notin DOMAIN rec \/ rec[f] \in {"", None}

C11_BasePreserved ==
    \A i \in Items : wpc[i] = "done" =>
      \A f \in DOMAIN Base(i) :
        /\ f \in DOMAIN combined_rec[i]
        /\ combined_rec[i][f] = Base(i)[f]

\* the record after the first j remaining identity fields are merged
MergedUpTo(rec, d, j) ==
    MergeRest(FlattenCert(FlattenAttrs(rec, d.attributes, DOMAIN d.attributes),
                          d.certificate, "cert_subject", "subject"),
              SubSeq(d.rest, 1, j), 1)

\* C17: Collision rule for remaining identity fields.  A field k that is
\* not yet a key of the record being built is added as record[k]; otherwise
\* it is added as record['client_' + k] and record[k] keeps its value; and
\* the alias write never replaces a value that was in the base record.
C17_CollisionRule ==
    \A i \in Items : (script = "test_client" /\ wpc[i] = "client") =>
      \A d \in ClientDatas \ {DataBadAttrs} :
        \A j \in 1..Len(d.rest) :
          LET before == MergedUpTo(combined_rec[i], d, j - 1)
              after == MergedUpTo(combined_rec[i], d, j)
              k == d.rest[j].k
              v == d.rest[j].v
          IN  IF k \notin DOMAIN before
                THEN after = Put(before, k, v)
                ELSE /\ after[ClientField(k)] = v
                     /\ after[k] = before[k]
                     /\ \A f \in DOMAIN Base(i) : after[f] = before[f]

C16_BackwardOnceEach ==
    /\ \A q \in 1..Len(queried) :
         /\ queried[q].to - queried[q].from = window
         /\ q > 1 => queried[q].to = queried[q - 1].from
    /\ \A q, r \in 1..Len(queried) :
         queried[q].from = queried[r].from => q = r

\* a failed window followed by a further query
C16_Witness ==
    /\ Len(queried) >= 3
    /\ queried[1].kind = "ok"
    /\ queried[2].kind \in {"neterr", "http", "badjson"}

\* how far work item i's enrich_device_worker call has come
AfterNad(i) == wpc[i] \in {"details", "client", "done", "crashed"}
AfterDetails(i) == wpc[i] \in {"client", "done", "crashed"}
AfterClient(i) == wpc[i] \in {"done", "crashed"}

\* the work items that have sent a config.nad.get request for switch n
Requesters(n) ==
    {i \in Items : NadOf(i) = n
                     /\ (wpc[i] \in {"wait", "lock_store", "store"}
                           \/ outcome[i].nad \in {"ok", "noname", "neterr", "http"})}

\* C18: Per-device request pattern of enrich_device_worker.  One identity
\* request whatever the record holds; one session-detail request if and
\* only if authReqID is non-empty; a switch-name lookup if and only if nadID
\* is non-empty, with at most one upstream request and none on a cache hit;
\* no lookup depends on how another one ended.
C18_RequestPattern ==
    script = "test_client" =>
      /\ \A i \in Items :
           /\ outcome[i].cli # "none" <=> AfterClient(i)
           /\ outcome[i].det # "none" <=>
                (AfterDetails(i) /\ ~Empty(Base(i), "authReqID"))
           /\ AfterNad(i) =>
                (outcome[i].nad # "none" <=> ~Empty(Base(i), "nadID"))
           /\ Empty(Base(i), "nadID") => outcome[i].nad = "none"
      /\ \A n \in NadIds : nad_requests[n] = Cardinality(Requesters(n))

\* a device whose switch lookup failed and whose other two lookups were issued
C18_Witness ==
    /\ script = "test_client"
    /\ \E i \in Items :
         /\ wpc[i] = "done"
         /\ outcome[i].nad \in FailKinds
         /\ outcome[i].det = "ok"
         /\ outcome[i].cli \in FailKinds

\* C19: Cache hit after a completed fetch.  A get_nad_name call that tests
\* the cache when the switch id has an entry returns the stored value and
\* issues no request; no step removes an entry of nad_cache.
C19_CacheHitAfterStore ==
    [][/\ DOMAIN nad_cache \subseteq DOMAIN nad_cache'
       /\ pc = "pool" =>
            \A i \in Items :
              (wpc[i] = "check" /\ wpc'[i] # "check"
                 /\ NadOf(i) \in DOMAIN nad_cache) =>
                /\ wpc'[i] = "details"
                /\ outcome'[i].nad = "hit"
                /\ combined_rec'[i]["switch_name"] = nad_cache[NadOf(i)]
                /\ nad_requests' = nad_requests]_vars

\* a call answered from the cache after the only request stored its value
C19_Witness ==
    \E i, j \in Items :
      /\ outcome[i].nad = "ok" /\ AfterNad(i)
      /\ outcome[j].nad = "hit" /\ AfterNad(j)
      /\ NadOf(i) = NadOf(j)
      /\ nad_requests[NadOf(i)] = 1
      /\ combined_rec[j]["switch_name"] = nad_cache[NadOf(j)]

\* what a step of the enrichment leaves alone
EnrichmentStepFrame ==
    /\ unique_devices' = unique_devices
    /\ all_sessions' = all_sessions
    /\ \A i, j \in Items :
         (wpc'[i] # wpc[i] /\ j # i) => combined_rec'[j] = combined_rec[j]
    /\ nad_cache' # nad_cache =>
         /\ nad_cache_lock \in Items
         /\ wpc[nad_cache_lock] = "store"
         /\ wpc'[nad_cache_lock] = "details"

\* C20: Enrichment does not mutate its inputs.  Whatever the interleaving
\* of the workers, no step of the enrichment changes an entry of
\* unique_devices (or a raw record); a worker's step writes to its own
\* combined_rec only, and nad_cache is written only by the worker that
\* holds the lock.
C20_InputsUntouched ==
    [][(pc \in {"pool", "loop"}) => EnrichmentStepFrame]_vars

\* both scripts' enrichment is over, having written to a copy and the cache
C20_Witness ==
    /\ pc = "export"
    /\ \E i \in Items : combined_rec[i] # Base(i)
    /\ script = "test_client" => nad_cache # <<>>

\* the export block has run on a non-empty list of records
Exported == script # "sessions" /\ pc = "done" /\ final_records # <<>>

\* the priority columns of the running script that occur in the records
PresentPriority ==
    SelectSeq(IF script = "test_client" THEN priority ELSE priority_cols,
              LAMBDA col : col \in AllKeys(final_records))

\* C12: Export column schema.  For every non-empty list of records the
\* column list has no duplicates, is as a set the union of the records'
\* keys, and starts with exactly the priority columns that occur in the
\* data, in the priority list's order, followed by the remaining keys.
C12_ColumnSchema ==
    Exported =>
      /\ Cardinality(Range(sorted_keys)) = Len(sorted_keys)
      /\ Range(sorted_keys) = AllKeys(final_records)
      /\ SubSeq(sorted_keys, 1, Len(PresentPriority)) = PresentPriority
      /\ \A c \in (Len(PresentPriority) + 1)..Len(sorted_keys) :
           sorted_keys[c] \notin Range(PresentPriority)

\* records with several priority columns, some priority columns absent and
\* non-priority keys
C12_Witness ==
    /\ Exported
    /\ Len(PresentPriority) >= 4
    /\ Len(sorted_keys) > Len(PresentPriority) + 1
    /\ "username" \notin AllKeys(final_records)

\* the login failed, or the segment name was not resolved to an id
FatalFailure ==
    auth = "failed" \/ seg_kind \in {"notfound", "neterr", "http"}

\* C13: Fatal failures stop the run before any data work.  After a failed
\* login or an unresolved segment the run is in its exit-1 state and has
\* issued no window query, no enrichment lookup and no export; the login
\* precedes the segment resolution, which precedes the first window query.
C13_FatalFailureStopsRun ==
    /\ FatalFailure =>
         /\ pc = "exit1"
         /\ queried = <<>> /\ all_sessions = <<>>
         /\ outcome = <<>> /\ \A n \in NadIds : nad_requests[n] = 0
         /\ sorted_keys = <<>> /\ csv_file = "none"
    /\ seg_kind # "pending" => auth = "ok"
    /\ pc \notin {"login", "segment", "exit1"} =>
         /\ auth = "ok"
         /\ script # "sessions" => seg_kind = "ok"
    /\ queried # <<>> =>
         /\ auth = "ok"
         /\ script # "sessions" => seg_kind = "ok"

\* the login succeeded and the segment name is unknown
C13_Witness == pc = "exit1" /\ auth = "ok" /\ seg_kind = "notfound"

\* C15: Enrichment off.  With the enrichment flag false no switch-name,
\* session-detail or identity request is issued in the run, and the records
\* handed to export are the values of the deduplicated map, unchanged.
C15_EnrichmentOff ==
    ~enable_enrichment =>
      /\ wpc = <<>> /\ outcome = <<>> /\ combined_rec = <<>>
      /\ \A n \in NadIds : nad_requests[n] = 0
      /\ (script # "sessions" /\ pc \in {"export", "done"}) =>
           /\ Len(final_records) = Len(unique_devices)
           /\ \A i \in 1..Len(final_records) :
                final_records[i] = unique_devices[i].v
           /\ unique_devices = Deduplicate(all_sessions)

\* two devices exported without enrichment
C15_Witness ==
    /\ ~enable_enrichment
    /\ pc = "done" /\ csv_file = "written"
    /\ Len(final_records) = 2

\* the paginator of test-client.py or get-agni-clients-by-segment.py has
\* been entered
InPaginator ==
    script # "sessions" /\ pc \notin {"login", "segment", "start", "exit1"}

\* at most floor(L / W) + 1 queries, none starting before the lower bound
QueriesWithinBound ==
    /\ Len(queried) <= (lookback \div window) + 1
    /\ \A q \in 1..Len(queried) : queried[q].from >= total_start_time

\* every window query so far has failed
EveryQueryFailed ==
    \A q \in 1..Len(queried) :
      queried[q].kind \in {"neterr", "http", "badjson", "baddata"}

\* C21: Pagination terminates within the bound.  get_sessions_time_sliced
\* issues at most floor(L / W) + 1 window queries, none of them starting
\* before the lower bound, and it returns the accumulated records (no
\* exception leaves it) even if every window query fails.
C21_PaginationTerminates ==
    InPaginator =>
      /\ QueriesWithinBound
      /\ pc # "crashed"
      /\ (pc = "paginate" /\ current_from < total_start_time) =>
           ENABLED ReturnSessions
      /\ (pc = "dedup" /\ EveryQueryFailed) => all_sessions = <<>>

\* every lookup of the run so far succeeded with its identifier's answer
AllLookupsSucceeded ==
    \A i \in Items :
      /\ outcome[i].nad \in {"none", "ok", "hit"}
      /\ outcome[i].det \in {"none", "ok"}
      /\ outcome[i].cli = "ok"

\* what enriching device i alone, with no other worker and an empty cache,
\* makes of its record when it is given the same answers
SequentialRecord(i) ==
    LET r0 == Base(i)
        r1 == IF Empty(r0, "nadID") THEN r0
              ELSE Put(r0, "switch_name", NadNameOf(r0["nadID"]))
        r2 == IF Empty(r0, "authReqID") THEN r1
              ELSE Put(r1, "switch_interface", "Eth1")
    IN  MergeClient(r2, outcome[i].data, "cert_subject", "subject")

\* C22: Enrichment result is independent of scheduling.  When every lookup
\* succeeds with the answer of its identifier, then for every pool size
\* and interleaving the enriched records are, in the order of
\* unique_devices, the ones a one-device-at-a-time enrichment produces;
\* cache races change the number of requests only.
C22_SchedulingIndependent ==
    (script = "test_client" /\ pc \in {"export", "done"} /\ wpc # <<>>
       /\ AllLookupsSucceeded) =>
      /\ Len(final_records) = Len(unique_devices)
      /\ \A i \in 1..Len(final_records) : final_records[i] = SequentialRecord(i)

\* two workers raced for the same switch, one more was served by the cache
\* or both fetched, and every lookup succeeded
C22_Witness ==
    /\ script = "test_client" /\ pc = "export" /\ max_threads = 2
    /\ Len(final_records) = 2
    /\ AllLookupsSucceeded
    /\ NadOf(1) = "n1" /\ NadOf(2) = "n1"
    /\ nad_requests["n1"] = 2
    /\ outcome[1].data # NoData

\* nad_cache_lock is held by a worker inside one of the two `with` blocks
LockHeldInsideWithBlock ==
    /\ nad_cache_lock # 0 =>
         /\ nad_cache_lock \in Items
         /\ wpc[nad_cache_lock] \in {"check", "store"}
    /\ \A i \in Items :
         wpc[i] \in {"check", "store"} <=> nad_cache_lock = i

\* a worker that waits for the lock waits for a holder that can go on
\* (never for one whose request is in flight), and the pool never stops
\* before every work item has ended
NoWorkerBlocked ==
    pc = "pool" =>
      /\ ENABLED NextEnrich
      /\ \A i \in Items :
           wpc[i] \in {"lock_check", "lock_store"} =>
             \/ ENABLED AcquireLock(i)
             \/ ENABLED CheckCache(nad_cache_lock)
             \/ ENABLED StoreCache(nad_cache_lock)

\* C23: Cache lock discipline and progress.  nad_cache_lock is held only
\* during the cache test and the cache write, never while a request is in
\* flight; no interleaving of workers deadlocks; and every worker's call
\* ends by returning its enriched record.
C23_LockDisciplineAndProgress ==
    /\ LockHeldInsideWithBlock
    /\ NoWorkerBlocked
    /\ script = "test_client" => \A i \in Items : wpc[i] # "crashed"

TypeOK == pc \in {"login", "segment", "start", "paginate", "dedup", "enrich",
                  "pool", "loop", "export", "done", "exit1", "crashed"}
====
